---------------------------- MODULE Spec2Model ----------------------------
(***************************************************************************)
(* The availability selector of the "New Enquiry" page                     *)
(* (NewEnquiryCalendar): property choice, the date-click cycle, the        *)
(* availability query and its resolution, room selection, and the          *)
(* enquiry-creation mutation.  One action per event handler; the state     *)
(* setters a handler calls are applied together, as React batches them.    *)
(* The month buttons (setCurrentDate) only choose which days are shown:    *)
(* every day of Days can be clicked.                                       *)
(***************************************************************************)
EXTENDS Integers, Sequences, FiniteSets

(* ------------------------------ bounds -------------------------------- *)

\* Calendar days are 0 .. MaxDay (start-of-day instants, one per day).
MaxDay == 3
\* The day of startOfDay(new Date()); the days before it are past.
today == 1
\* Properties offered by the select are 1 .. NumProperties.
NumProperties == 2
\* Rooms known to the backend are 1 .. NumRooms.
NumRooms == 3
\* Availability queries issued in one run of the model.
MaxQueries == 2
\* Guest names typed are up to MaxNameLen characters long.
MaxNameLen == 2
\* Phone numbers typed are up to MaxPhoneLen characters long.
MaxPhoneLen == 10
\* Times of day a booking's timestamp may carry (0 is local midnight).
TicksPerDay == 2
\* Bookings the bookings query returns.
MaxBookings == 1
\* Orders the restaurant receives in one run.
MaxOrders == 2
\* The item quantity and an add-on's quantity are raised up to MaxQuantity.
MaxQuantity == 2
\* Entries the cart holds.
MaxCart == 2
\* Guest-creation requests the bookings page issues in one run.
MaxGuestCalls == 2

(* ----------------------------- constants ------------------------------ *)

\* enquiryFormSchema: guestName z.string().min(2)
MinNameLength == 2
\* enquiryFormSchema: guestPhone z.string().min(10)
MinPhoneLength == 10
\* enquiryFormSchema: numberOfGuests .min(1)
MinGuests == 1

(* --------------------------- value domains ---------------------------- *)

\* The value of a useState<T>() that has not been set.
Undefined == -1

Days == 0 .. MaxDay
Properties == 1 .. NumProperties
Rooms == 1 .. NumRooms

\* The property a room belongs to (rooms are dealt round-robin).
PropertyOfRoom(r) == ((r - 1) % NumProperties) + 1
RoomsOf(p) == {r \in Rooms : PropertyOfRoom(r) = p}

Min(S) == CHOOSE x \in S : \A y \in S : x <= y

RECURSIVE Ascending(_)
Ascending(S) == IF S = {} THEN <<>>
                ELSE <<Min(S)>> \o Ascending(S \ {Min(S)})

\* What the availability endpoint may answer for a property: the ordered
\* sequence of any of its rooms, the empty sequence included.
Responses(p) == {Ascending(S) : S \in SUBSET RoomsOf(p)}

RoomIds(rooms) == {rooms[i] : i \in 1 .. Len(rooms)}

(* ----------------------- number <-> select value ---------------------- *)

RECURSIVE toString(_)
\* property.id.toString(): the decimal digits of a non-negative integer.
toString(n) == IF n < 10 THEN <<n>> ELSE toString(n \div 10) \o <<n % 10>>

RECURSIVE parseInt(_)
\* parseInt(value) of a digit string.
parseInt(s) == IF Len(s) = 0 THEN Undefined
               ELSE IF Len(s) = 1 THEN s[1]
               ELSE 10 * parseInt(SubSeq(s, 1, Len(s) - 1)) + s[Len(s)]

(* --------------------------- guest form values ------------------------ *)

\* A text is the sequence of its characters.
Rep(c, n) == [i \in 1 .. n |-> c]

\* The value of an optional field that was never typed into.
NoText == <<"undefined">>

\* null in the payload.
Null == <<"null">>

DigitValue(c) ==
  CASE c = "0" -> 0 [] c = "1" -> 1 [] c = "2" -> 2 [] c = "3" -> 3 [] c = "4" -> 4
    [] c = "5" -> 5 [] c = "6" -> 6 [] c = "7" -> 7 [] c = "8" -> 8 [] c = "9" -> 9
    [] OTHER -> Undefined

IsDigit(c) == DigitValue(c) # Undefined

RECURSIVE DigitsValue(_)
\* The number written by a non-empty string of digits.
DigitsValue(s) == IF Len(s) = 1 THEN DigitValue(s[1])
                  ELSE 10 * DigitsValue(SubSeq(s, 1, Len(s) - 1)) + DigitValue(s[Len(s)])

AllDigits(s) == Len(s) > 0 /\ \A i \in 1 .. Len(s) : IsDigit(s[i])

\* Number(text) of z.coerce.number(), in tenths: {} is NaN, "" is 0, and a
\* text is a number when it is [-]digits[.digit].
Number(text) ==
  IF text = <<>> THEN {0}
  ELSE LET neg  == text[1] = "-"
           body == IF neg THEN Tail(text) ELSE text
           dots == {i \in 1 .. Len(body) : body[i] = "."}
           sign == IF neg THEN -1 ELSE 1
       IN  IF dots = {}
           THEN IF AllDigits(body) THEN {sign * 10 * DigitsValue(body)} ELSE {}
           ELSE IF /\ dots = {Len(body) - 1}
                   /\ AllDigits(SubSeq(body, 1, Len(body) - 2))
                   /\ IsDigit(body[Len(body)])
                THEN {sign * (10 * DigitsValue(SubSeq(body, 1, Len(body) - 2))
                              + DigitValue(body[Len(body)]))}
                ELSE {}

\* z.string().email(): local@label(.label)*.tld with a tld of two letters
\* or more, no leading, trailing or doubled dot.
isEmail(s) ==
  LET ats == {i \in 1 .. Len(s) : s[i] = "@"}
  IN  /\ Cardinality(ats) = 1
      /\ LET at     == CHOOSE i \in ats : TRUE
             local  == SubSeq(s, 1, at - 1)
             domain == SubSeq(s, at + 1, Len(s))
             dots   == {i \in 1 .. Len(domain) : domain[i] = "."}
         IN  /\ Len(local) > 0
             /\ local[1] # "." /\ local[Len(local)] # "."
             /\ \A i \in 1 .. Len(local) - 1 : ~(local[i] = "." /\ local[i + 1] = ".")
             /\ dots # {}
             /\ domain[1] # "."
             /\ \A i \in dots : i + 1 \notin dots
             /\ LET last == CHOOSE i \in dots : \A j \in dots : j <= i
                IN  Len(domain) - last >= 2

\* useForm's defaultValues (specialRequests, which no rule constrains, is
\* left out).
defaultValues ==
  [guestName |-> <<>>, guestPhone |-> <<>>, guestEmail |-> <<>>,
   numberOfGuests |-> <<"1">>, priceQuoted |-> NoText, advanceAmount |-> NoText]

\* An optional coerced number that is not negative.
optionalAmountOk(text) ==
  text = NoText \/ \E n \in Number(text) : n >= 0

\* enquiryFormSchema: the values pass the resolver.
enquiryFormSchema(values) ==
  /\ Len(values.guestName) >= MinNameLength
  /\ Len(values.guestPhone) >= MinPhoneLength
  /\ (isEmail(values.guestEmail) \/ values.guestEmail = <<>>)
  /\ \E n \in Number(values.numberOfGuests) : n % 10 = 0 /\ n >= 10 * MinGuests
  /\ optionalAmountOk(values.priceQuoted)
  /\ optionalAmountOk(values.advanceAmount)

\* The coerced value of an optional amount: {} when absent.
amount(text) == IF text = NoText THEN {} ELSE Number(text)

\* What the user may type into the guest form.
NameInputs == {Rep("a", n) : n \in 0 .. MaxNameLen}
PhoneInputs ==
  {Rep("9", n) : n \in (MinPhoneLength - 1) .. MaxPhoneLen}
    \cup {Rep("x", MaxPhoneLen)}
EmailInputs ==
  {<<>>, <<"a", "@", "a", ".", "a", "a">>, <<"a", "@", "a">>}
NumberInputs ==
  {<<>>, <<"1">>, <<"2">>, <<"-", "1">>, <<"1", ".", "5">>}
GuestInputs ==
  [guestName |-> NameInputs, guestPhone |-> PhoneInputs, guestEmail |-> EmailInputs,
   numberOfGuests |-> NumberInputs, priceQuoted |-> {<<"0">>, <<"-", "1">>},
   advanceAmount |-> {<<"-", "1">>}]

\* The fields typed into while the selector is exercised.
TypicalInputs ==
  [guestName |-> {Rep("a", MinNameLength)}, guestPhone |-> {Rep("9", MinPhoneLength)}]

\* A guest whose details pass the schema.
TypicalGuest ==
  [defaultValues EXCEPT !.guestName = Rep("a", MinNameLength),
                        !.guestPhone = Rep("9", MinPhoneLength)]

(* ------------------------------- state -------------------------------- *)

VARIABLES
  selectedPropertyId,  \* useState<number>()
  checkInDate,         \* useState<Date>()
  checkOutDate,        \* useState<Date>()
  availableRooms,      \* useState<Room[]>([]), rooms by id
  selectedRoomId,      \* useState<number>()
  loadingRooms,        \* useState(false)
  showGuestForm,       \* useState(false)
  form,                \* useForm: the guest form's field values
  pendingEnquiry,      \* the creation calls in flight (at most one), by payload
  inflight,            \* availability requests awaiting their response
  nIssued,             \* number of availability requests issued so far
  toast,               \* the toast raised by the last step ("" when none)
  superseded,          \* history: requests outstanding at a property change or range restart
  lastEvent,           \* history: the event handled by the last step
  resultOf,            \* history: availableRooms answers the query for the shown selection
  calendarPropertyId,  \* RoomCalendar: useState<number>() selectedPropertyId
  bookings,            \* RoomCalendar: data of the /api/bookings query
  calendarRooms,       \* RoomCalendar: data of the /api/rooms query (rooms = [])
  serverOrders,        \* the orders the API holds, by id ("none": not placed yet)
  orders,              \* Kitchen: data of the /api/orders query
  isLoading,           \* Kitchen: the orders query has no data yet
  previousOrderCountRef, \* Kitchen: useRef<number | null>(null)
  updateStatusMutation,  \* Kitchen: the status update in flight (at most one)
  notified,            \* history: the last step called playNotification
  selectedItem,        \* CustomerMenu: useState<MenuItem | null>(null), by id
  selectedVariant,     \* CustomerMenu: useState<MenuItemVariant | null>(null), by id
  selectedAddOns,      \* CustomerMenu: useState<Map<number, number>>(new Map())
  quantity,            \* CustomerMenu: useState(1)
  cart,                \* CustomerMenu: useState<CartItem[]>([])
  allVariants,         \* CustomerMenu: data of the variants query (at most one list)
  allAddOns,           \* CustomerMenu: data of the add-ons query (at most one list)
  isDialogOpen,        \* Bookings: useState(false)
  quickGuestData,      \* Bookings: useState({fullName, phone, email, idProofImage})
  guestCalls,          \* Bookings: POST /api/guests calls awaited by onSubmit
  createMutation,      \* Bookings: POST /api/bookings calls in flight
  bookingsToast,       \* Bookings: the toast raised by the last step ("" when none)
  guestPosts,          \* history: every POST /api/guests issued, with its body
  guestsCreated,       \* history: the calls the API answered with a guest, and its id
  bookingPosts         \* history: every POST /api/bookings issued

selection == <<checkInDate, checkOutDate, availableRooms, selectedRoomId, showGuestForm>>
vars == <<selectedPropertyId, checkInDate, checkOutDate, availableRooms,
          selectedRoomId, loadingRooms, showGuestForm, form, pendingEnquiry,
          inflight, nIssued, toast, superseded, lastEvent, resultOf,
          calendarPropertyId, bookings, calendarRooms, serverOrders, orders,
          isLoading, previousOrderCountRef, updateStatusMutation, notified,
          selectedItem, selectedVariant, selectedAddOns, quantity, cart,
          allVariants, allAddOns, isDialogOpen, quickGuestData, guestCalls,
          createMutation, bookingsToast, guestPosts, guestsCreated, bookingPosts>>

\* The state of the NewEnquiryCalendar page and of the RoomCalendar page.
enquiryVars == <<selectedPropertyId, checkInDate, checkOutDate, availableRooms,
                 selectedRoomId, loadingRooms, showGuestForm, form, pendingEnquiry,
                 inflight, nIssued, toast, superseded, lastEvent, resultOf>>
calendarVars == <<calendarPropertyId, bookings, calendarRooms>>
kitchenVars == <<serverOrders, orders, isLoading, previousOrderCountRef,
                 updateStatusMutation, notified>>
menuVars == <<selectedItem, selectedVariant, selectedAddOns, quantity, cart,
              allVariants, allAddOns>>
bookingsVars == <<isDialogOpen, quickGuestData, guestCalls, createMutation,
                  bookingsToast, guestPosts, guestsCreated, bookingPosts>>
otherThanEnquiry == <<calendarVars, kitchenVars, menuVars, bookingsVars>>
otherThanCalendar == <<enquiryVars, kitchenVars, menuVars, bookingsVars>>
otherThanKitchen == <<enquiryVars, calendarVars, menuVars, bookingsVars>>
otherThanMenu == <<enquiryVars, calendarVars, kitchenVars, bookingsVars>>
otherThanBookings == <<enquiryVars, calendarVars, kitchenVars, menuVars>>

OrderIds == 1 .. MaxOrders

\* The Kitchen page when it is opened, with no order placed yet.
KitchenInit ==
  /\ serverOrders = [id \in OrderIds |-> "none"]
  /\ orders = {}
  /\ isLoading = TRUE
  /\ previousOrderCountRef = Undefined
  /\ updateStatusMutation = {}
  /\ notified = FALSE

\* new Map()
EmptyMap == [key \in {} |-> 0]

\* The CustomerMenu page when it is opened.
MenuInit ==
  /\ selectedItem = Undefined
  /\ selectedVariant = Undefined
  /\ selectedAddOns = EmptyMap
  /\ quantity = 1
  /\ cart = <<>>
  /\ allVariants = {}
  /\ allAddOns = {}

\* { fullName: "", phone: "", email: "", idProofImage: "" }
NoGuestData == [fullName |-> <<>>, phone |-> <<>>, email |-> <<>>, idProofImage |-> <<>>]

\* The Bookings page when it is opened.
BookingsInit ==
  /\ isDialogOpen = FALSE
  /\ quickGuestData = NoGuestData
  /\ guestCalls = {}
  /\ createMutation = {}
  /\ bookingsToast = ""
  /\ guestPosts = {}
  /\ guestsCreated = {}
  /\ bookingPosts = {}

Event(k, a) == [kind |-> k, arg |-> a]

Init ==
  /\ selectedPropertyId = Undefined
  /\ checkInDate = Undefined
  /\ checkOutDate = Undefined
  /\ availableRooms = <<>>
  /\ selectedRoomId = Undefined
  /\ loadingRooms = FALSE
  /\ showGuestForm = FALSE
  /\ form = defaultValues
  /\ pendingEnquiry = {}
  /\ inflight = {}
  /\ nIssued = 0
  /\ toast = ""
  /\ superseded = {}
  /\ lastEvent = Event("open", 0)
  /\ resultOf = "none"
  /\ calendarPropertyId = Undefined
  /\ bookings = {}
  /\ calendarRooms = {}
  /\ KitchenInit
  /\ MenuInit
  /\ BookingsInit

(* ------------------------- the selector's states ---------------------- *)

NoCheckIn == checkInDate = Undefined
AwaitingCheckOut == checkInDate # Undefined /\ checkOutDate = Undefined
RangeComplete == checkInDate # Undefined /\ checkOutDate # Undefined
RoomChosen == RangeComplete /\ selectedRoomId # Undefined
GuestFormOpen == showGuestForm


(* ------------------------------ helpers ------------------------------- *)

\* isBefore with its arguments exchanged.
isBefore_swapped(date, dateToCompare) == dateToCompare < date

\* date-fns isBefore on two start-of-day instants.
isBefore(date, dateToCompare) == date < dateToCompare

\* The second click's test with < for <=.
isInvalidCheckOut_strict(date) == date < checkInDate

\* The second click's test `date <= checkInDate`.
isInvalidCheckOut(date) == date <= checkInDate

\* startRange without setCheckOutDate(undefined).
startRange_keepsCheckOut(date) ==
  /\ checkInDate' = date
  /\ checkOutDate' = checkOutDate
  /\ availableRooms' = <<>>
  /\ selectedRoomId' = Undefined
  /\ showGuestForm' = FALSE

\* The five setters of the first-click and third-click branches.
startRange(date) ==
  /\ checkInDate' = date
  /\ checkOutDate' = Undefined
  /\ availableRooms' = <<>>
  /\ selectedRoomId' = Undefined
  /\ showGuestForm' = FALSE

\* The five setters shared by the property change and the mutation's onSuccess.
resetSelection ==
  /\ checkInDate' = Undefined
  /\ checkOutDate' = Undefined
  /\ availableRooms' = <<>>
  /\ selectedRoomId' = Undefined
  /\ showGuestForm' = FALSE

Request(id, propertyId, checkIn, checkOut) ==
  [id |-> id, propertyId |-> propertyId, checkIn |-> checkIn, checkOut |-> checkOut]

\* checkAvailability with its arguments exchanged in the request.
checkAvailability_swapped(propertyId, checkIn, checkOut) ==
  /\ nIssued < MaxQueries
  /\ loadingRooms' = TRUE
  /\ nIssued' = nIssued + 1
  /\ inflight' = inflight \cup {Request(nIssued + 1, propertyId, checkOut, checkIn)}

\* checkAvailability up to its await: the loading mark and the fetch.  (The
\* first conjunct is the model's bound on the requests of one run.)
checkAvailability(propertyId, checkIn, checkOut) ==
  /\ nIssued < MaxQueries
  /\ loadingRooms' = TRUE
  /\ nIssued' = nIssued + 1
  /\ inflight' = inflight \cup {Request(nIssued + 1, propertyId, checkIn, checkOut)}

(* ------------------------------ handlers ------------------------------ *)

\* A third click that moves the check-out date and asks again, instead of
\* starting over.
thirdClick_movesCheckOut(date) ==
  IF date > checkInDate
  THEN /\ checkOutDate' = date
       /\ checkAvailability(selectedPropertyId, checkInDate, date)
       /\ toast' = ""
       /\ UNCHANGED <<checkInDate, availableRooms, selectedRoomId, showGuestForm>>
  ELSE /\ startRange(date)
       /\ toast' = ""
       /\ UNCHANGED <<loadingRooms, nIssued, inflight>>

\* handleDateClick, third click: reset and start over.
thirdClick(date) ==
  /\ startRange(date)
  /\ toast' = ""
  /\ UNCHANGED <<loadingRooms, nIssued, inflight>>

\* handleDateClick, second click: the check-out date, or the invalid-date toast.
secondClick(date) ==
  IF isInvalidCheckOut(date)
  THEN /\ toast' = "Invalid Date"
       /\ UNCHANGED <<selection, loadingRooms, nIssued, inflight>>
  ELSE /\ checkOutDate' = date
       /\ checkAvailability(selectedPropertyId, checkInDate, date)
       /\ toast' = ""
       /\ UNCHANGED <<checkInDate, availableRooms, selectedRoomId, showGuestForm>>

\* handleDateClick, first click: the check-in date.
firstClick(date) ==
  /\ startRange(date)
  /\ toast' = ""
  /\ UNCHANGED <<loadingRooms, nIssued, inflight>>

handleDateClick(date) ==
  IF isBefore(date, today)
  THEN \* past dates: return
       /\ toast' = ""
       /\ UNCHANGED <<selection, loadingRooms, nIssued, inflight>>
  ELSE IF checkInDate = Undefined THEN firstClick(date)
  ELSE IF checkOutDate = Undefined THEN secondClick(date)
  ELSE thirdClick(date)

\* The click starts a range anew (first-click or third-click branch).
restartsRange(date) ==
  /\ ~isBefore(date, today)
  /\ (checkInDate = Undefined \/ checkOutDate # Undefined)

\* The calendar shown without the `selectedPropertyId &&` of its card.
DateClick_noProperty(date) ==
  /\ handleDateClick(date)
  /\ superseded' = IF restartsRange(date)
                   THEN superseded \cup {q.id : q \in inflight}
                   ELSE superseded
  /\ lastEvent' = Event("click", date)
  /\ resultOf' = IF availableRooms' = <<>> THEN "none" ELSE resultOf
  /\ UNCHANGED otherThanEnquiry
  /\ UNCHANGED <<selectedPropertyId, form, pendingEnquiry>>

\* A day button of the calendar card is clicked; the card is rendered once a
\* property is chosen.  (A button is disabled when its day was past at the
\* last render; a day rendered before midnight can be clicked after it, so
\* the handler is reached with past days too.)
DateClick(date) ==
  /\ selectedPropertyId # Undefined
  /\ handleDateClick(date)
  /\ superseded' = IF restartsRange(date)
                   THEN superseded \cup {q.id : q \in inflight}
                   ELSE superseded
  /\ lastEvent' = Event("click", date)
  /\ resultOf' = IF availableRooms' = <<>> THEN "none" ELSE resultOf
  /\ UNCHANGED otherThanEnquiry
  /\ UNCHANGED <<selectedPropertyId, form, pendingEnquiry>>

\* onValueChange without setAvailableRooms([]).
onValueChange_keepsRooms(value) ==
  /\ selectedPropertyId' = parseInt(value)
  /\ checkInDate' = Undefined
  /\ checkOutDate' = Undefined
  /\ availableRooms' = availableRooms
  /\ selectedRoomId' = Undefined
  /\ showGuestForm' = FALSE

\* The property select's onValueChange.
onValueChange(value) ==
  /\ selectedPropertyId' = parseInt(value)
  /\ resetSelection

\* The select reports a value other than the one it shows.
PropertyChange(p) ==
  /\ p # selectedPropertyId
  /\ onValueChange(toString(p))
  /\ toast' = ""
  /\ superseded' = superseded \cup {q.id : q \in inflight}
  /\ lastEvent' = Event("property", p)
  /\ resultOf' = IF availableRooms' = <<>> THEN "none" ELSE resultOf
  /\ UNCHANGED otherThanEnquiry
  /\ UNCHANGED <<loadingRooms, form, pendingEnquiry, inflight, nIssued>>

\* An empty result reported as the transport error.
availabilityResolved_emptyIsError(rooms) ==
  /\ availableRooms' = rooms
  /\ toast' = IF Len(rooms) = 0 THEN "Error" ELSE "Rooms Found!"
  /\ loadingRooms' = FALSE

\* checkAvailability after its await, response.ok: the rooms are stored.
availabilityResolved(rooms) ==
  /\ availableRooms' = rooms
  /\ toast' = IF Len(rooms) = 0 THEN "No Rooms Available" ELSE "Rooms Found!"
  /\ loadingRooms' = FALSE

\* The catch without setAvailableRooms([]).
availabilityFailed_keepsRooms ==
  /\ toast' = "Error"
  /\ UNCHANGED availableRooms
  /\ loadingRooms' = FALSE

\* checkAvailability's catch and finally.
availabilityFailed ==
  /\ toast' = "Error"
  /\ availableRooms' = <<>>
  /\ loadingRooms' = FALSE

AvailabilityResponse(q, rooms) ==
  /\ q \in inflight
  /\ rooms \in Responses(q.propertyId)
  /\ availabilityResolved(rooms)
  /\ inflight' = inflight \ {q}
  /\ superseded' = superseded \ {q.id}
  /\ lastEvent' = Event("rooms", Len(rooms))
  /\ resultOf' = IF availableRooms' = <<>> THEN "none"
                 ELSE IF /\ q.propertyId = selectedPropertyId
                         /\ q.checkIn = checkInDate
                         /\ q.checkOut = checkOutDate
                      THEN "shown" ELSE "other"
  /\ UNCHANGED otherThanEnquiry
  /\ UNCHANGED <<selectedPropertyId, checkInDate, checkOutDate, selectedRoomId,
                 showGuestForm, form, pendingEnquiry, nIssued>>

AvailabilityError(q) ==
  /\ q \in inflight
  /\ availabilityFailed
  /\ inflight' = inflight \ {q}
  /\ superseded' = superseded \ {q.id}
  /\ lastEvent' = Event("failed", 0)
  /\ resultOf' = IF availableRooms' = <<>> THEN "none" ELSE resultOf
  /\ UNCHANGED otherThanEnquiry
  /\ UNCHANGED <<selectedPropertyId, checkInDate, checkOutDate, selectedRoomId,
                 showGuestForm, form, pendingEnquiry, nIssued>>

handleRoomSelect(roomId) ==
  /\ selectedRoomId' = roomId
  /\ showGuestForm' = TRUE

\* isDateInRange with the check-out day left out.
isDateInRange_halfOpen(date) ==
  IF checkInDate = Undefined THEN FALSE
  ELSE IF checkOutDate = Undefined THEN FALSE
  ELSE date >= checkInDate /\ date < checkOutDate

isDateInRange(date) ==
  IF checkInDate = Undefined THEN FALSE
  ELSE IF checkOutDate = Undefined THEN FALSE
  ELSE date >= checkInDate /\ date <= checkOutDate

\* The room buttons without the card's `checkOutDate &&`.
roomButtons_anyTime == RoomIds(availableRooms)

\* The room buttons rendered by the "Select Room" card.
roomButtons ==
  IF checkOutDate # Undefined /\ Len(availableRooms) > 0
  THEN RoomIds(availableRooms) ELSE {}

RoomClick(roomId) ==
  /\ roomId \in roomButtons
  /\ handleRoomSelect(roomId)
  /\ toast' = ""
  /\ lastEvent' = Event("room", roomId)
  /\ UNCHANGED resultOf
  /\ UNCHANGED otherThanEnquiry
  /\ UNCHANGED <<selectedPropertyId, checkInDate, checkOutDate, availableRooms,
                 loadingRooms, form, pendingEnquiry, inflight, nIssued, superseded>>

\* The payload of POST /api/enquiries (specialRequests left out); an
\* optional amount is {} for null.
enquiryData(data) ==
  [propertyId |-> selectedPropertyId,
   guestName |-> data.guestName,
   guestPhone |-> data.guestPhone,
   guestEmail |-> IF data.guestEmail = <<>> THEN Null ELSE data.guestEmail,
   checkInDate |-> checkInDate,
   checkOutDate |-> checkOutDate,
   roomId |-> selectedRoomId,
   numberOfGuests |-> Number(data.numberOfGuests),
   priceQuoted |-> amount(data.priceQuoted),
   advanceAmount |-> amount(data.advanceAmount),
   status |-> "new"]

\* onSubmit without the test of the selected room.
onSubmit_noRoomCheck(data) ==
  IF \/ selectedPropertyId = Undefined \/ checkInDate = Undefined
     \/ checkOutDate = Undefined
  THEN /\ toast' = "Missing Information"
       /\ UNCHANGED pendingEnquiry
  ELSE /\ toast' = ""
       /\ pendingEnquiry' = {enquiryData(data)}

\* onSubmit sending the dates the wrong way round.
onSubmit_datesSwapped(data) ==
  IF \/ selectedPropertyId = Undefined \/ checkInDate = Undefined
     \/ checkOutDate = Undefined \/ selectedRoomId = Undefined
  THEN /\ toast' = "Missing Information"
       /\ UNCHANGED pendingEnquiry
  ELSE /\ toast' = ""
       /\ pendingEnquiry' = {[enquiryData(data) EXCEPT !.checkInDate = checkOutDate,
                                                       !.checkOutDate = checkInDate]}

\* onSubmit, called with the data that passed the resolver.
onSubmit(data) ==
  IF \/ selectedPropertyId = Undefined \/ checkInDate = Undefined
     \/ checkOutDate = Undefined \/ selectedRoomId = Undefined
  THEN /\ toast' = "Missing Information"
       /\ UNCHANGED pendingEnquiry
  ELSE /\ toast' = ""
       /\ pendingEnquiry' = {enquiryData(data)}

\* form.handleSubmit(onSubmit): onSubmit runs when the values pass the
\* schema; otherwise the field errors are shown and nothing is called.
handleSubmit ==
  IF enquiryFormSchema(form)
  THEN onSubmit(form)
  ELSE /\ toast' = ""
       /\ UNCHANGED pendingEnquiry

\* The guest form's submit button, disabled while the mutation is pending.
Submit ==
  /\ showGuestForm
  /\ pendingEnquiry = {}
  /\ handleSubmit
  /\ lastEvent' = Event("submit", 0)
  /\ UNCHANGED resultOf
  /\ UNCHANGED otherThanEnquiry
  /\ UNCHANGED <<selectedPropertyId, selection, loadingRooms, form, inflight, nIssued,
                 superseded>>

\* The user types into a field of the open guest form.
TypeGuestDetails(field, text) ==
  /\ showGuestForm
  /\ form' = [form EXCEPT ![field] = text]
  /\ toast' = ""
  /\ lastEvent' = Event("type", 0)
  /\ UNCHANGED resultOf
  /\ UNCHANGED otherThanEnquiry
  /\ UNCHANGED <<selectedPropertyId, selection, loadingRooms, pendingEnquiry,
                 inflight, nIssued, superseded>>

\* createEnquiryMutation.onSuccess
createEnquiry_onSuccess ==
  /\ toast' = "Enquiry Created!"
  /\ resetSelection
  /\ form' = defaultValues

\* onError resetting the selection as onSuccess does.
createEnquiry_onError_resets ==
  /\ toast' = "Error"
  /\ resetSelection
  /\ UNCHANGED form

\* onError closing the guest form.
createEnquiry_onError_closesForm ==
  /\ toast' = "Error"
  /\ showGuestForm' = FALSE
  /\ UNCHANGED <<checkInDate, checkOutDate, availableRooms, selectedRoomId, form>>

\* createEnquiryMutation.onError
createEnquiry_onError ==
  /\ toast' = "Error"
  /\ UNCHANGED <<selection, form>>

EnquiryCreated ==
  /\ pendingEnquiry # {}
  /\ createEnquiry_onSuccess
  /\ pendingEnquiry' = {}
  /\ lastEvent' = Event("created", 0)
  /\ resultOf' = IF availableRooms' = <<>> THEN "none" ELSE resultOf
  /\ UNCHANGED otherThanEnquiry
  /\ UNCHANGED <<selectedPropertyId, loadingRooms, inflight, nIssued, superseded>>

EnquiryRejected ==
  /\ pendingEnquiry # {}
  /\ createEnquiry_onError
  /\ pendingEnquiry' = {}
  /\ lastEvent' = Event("rejected", 0)
  /\ UNCHANGED resultOf
  /\ UNCHANGED otherThanEnquiry
  /\ UNCHANGED <<selectedPropertyId, loadingRooms, inflight, nIssued, superseded>>

Next ==
  \/ \E date \in Days : DateClick(date)
  \/ \E p \in Properties : PropertyChange(p)
  \/ \E q \in inflight : \E rooms \in Responses(q.propertyId) : AvailabilityResponse(q, rooms)
  \/ \E q \in inflight : AvailabilityError(q)
  \/ \E roomId \in Rooms : RoomClick(roomId)
  \/ \E field \in DOMAIN TypicalInputs :
       \E text \in TypicalInputs[field] : TypeGuestDetails(field, text)
  \/ Submit
  \/ EnquiryCreated
  \/ EnquiryRejected

Spec == Init /\ [][Next]_vars

(* --------------------------- the room calendar ------------------------ *)

BookingStatuses == {"pending", "confirmed", "checked-in", "checked-out", "cancelled"}

\* A timestamp as the API sends it: a calendar day and a time of day.
Timestamps(ticks) == [day : Days, tick : ticks]

\* new Date(timestamp): the instant, in ticks since local midnight of day 0.
NewDate(timestamp) == timestamp.day * TicksPerDay + timestamp.tick

\* A day of calendarDays: eachDayOfInterval yields local midnights.
startOfDay(d) == d * TicksPerDay

\* The bookings the API may hold: a room of its property, any status,
\* check-out after check-in; its list changes by one booking at a time.
Bookings(ticks) ==
  {b \in [roomId : Rooms, propertyId : Properties, status : BookingStatuses,
          checkInDate : Timestamps(ticks), checkOutDate : Timestamps(ticks)] :
     /\ b.propertyId = PropertyOfRoom(b.roomId)
     /\ NewDate(b.checkInDate) < NewDate(b.checkOutDate)}

propertyRooms ==
  IF calendarPropertyId = Undefined THEN {}
  ELSE {room \in calendarRooms : PropertyOfRoom(room) = calendarPropertyId}

\* propertyBookings without the test of the status.
propertyBookings_anyStatus ==
  IF calendarPropertyId = Undefined THEN {}
  ELSE {booking \in bookings : booking.propertyId = calendarPropertyId}

propertyBookings ==
  IF calendarPropertyId = Undefined THEN {}
  ELSE {booking \in bookings :
          /\ booking.propertyId = calendarPropertyId
          /\ booking.status \in {"confirmed", "checked-in"}}

\* isRoomOccupied with the check-out day included.
isRoomOccupied_inclusive(roomId, date) ==
  \E booking \in propertyBookings :
    /\ booking.roomId = roomId
    /\ LET checkIn  == NewDate(booking.checkInDate)
           checkOut == NewDate(booking.checkOutDate)
       IN  date >= checkIn /\ date <= checkOut

isRoomOccupied(roomId, date) ==
  \E booking \in propertyBookings :
    /\ booking.roomId = roomId
    /\ LET checkIn  == NewDate(booking.checkInDate)
           checkOut == NewDate(booking.checkOutDate)
       IN  date >= checkIn /\ date < checkOut

getAvailableRoomsCount(date) ==
  Cardinality({room \in propertyRooms : ~isRoomOccupied(room, date)})

totalRooms == Cardinality(propertyRooms)

\* Math.round(numerator / denominator * 100), halves rounded up.
MathRound(numerator, denominator) ==
  (2 * 100 * numerator + denominator) \div (2 * denominator)

\* The occupancy rate shown in a day's cell.
occupancyRate(date) ==
  IF totalRooms > 0
  THEN MathRound(totalRooms - getAvailableRoomsCount(date), totalRooms)
  ELSE 0

\* The availability endpoint's test of a reservation against a query range.
overlaps(otherCheckIn, otherCheckOut, checkIn, checkOut) ==
  otherCheckIn < checkOut /\ checkIn < otherCheckOut

\* The property select of the room calendar.
setSelectedPropertyId(value) ==
  /\ calendarPropertyId' = parseInt(value)
  /\ UNCHANGED <<bookings, calendarRooms, otherThanCalendar>>

\* The bookings query, enabled once a property is selected, delivers the
\* list the API holds now.
BookingsFetched(data) ==
  /\ calendarPropertyId # Undefined
  /\ Cardinality(data) <= MaxBookings
  /\ bookings' = data
  /\ UNCHANGED <<calendarPropertyId, calendarRooms, otherThanCalendar>>

\* The rooms query, enabled once a property is selected, delivers.
RoomsFetched ==
  /\ calendarPropertyId # Undefined
  /\ calendarRooms' = Rooms
  /\ UNCHANGED <<calendarPropertyId, bookings, otherThanCalendar>>

CalendarInit == Init

CalendarNext(ticks) ==
  \/ \E p \in Properties : setSelectedPropertyId(toString(p))
  \/ RoomsFetched
  \/ \E b \in Bookings(ticks) :
       BookingsFetched(IF b \in bookings THEN bookings \ {b} ELSE bookings \cup {b})

\* Bookings with any time of day.
CalendarSpec == CalendarInit /\ [][CalendarNext(0 .. TicksPerDay - 1)]_vars

\* Bookings from local midnight to local midnight.
WholeDaySpec == CalendarInit /\ [][CalendarNext({0})]_vars

(* ------------------------------ the kitchen --------------------------- *)

\* The orders of a poll result: those placed, each with its status.
OrdersOf(server) ==
  {[id |-> id, status |-> server[id]] : id \in {i \in OrderIds : server[i] # "none"}}

\* A guest or a waiter places an order.
OrderPlaced(id) ==
  /\ serverOrders[id] = "none"
  /\ serverOrders' = [serverOrders EXCEPT ![id] = "pending"]
  /\ notified' = FALSE
  /\ UNCHANGED <<orders, isLoading, previousOrderCountRef, updateStatusMutation,
                 otherThanKitchen>>

\* The effect on [orders]: playNotification when the number of pending
\* orders has grown since the effect last ran.
newOrdersEffect(data) ==
  LET pendingCount == Cardinality({o \in data : o.status = "pending"})
  IN  /\ notified' = (previousOrderCountRef # Undefined
                        /\ pendingCount > previousOrderCountRef)
      /\ previousOrderCountRef' = pendingCount

\* The orders query delivers (every 5 s, on focus, after an invalidation).
PollResult ==
  /\ orders' = OrdersOf(serverOrders)
  /\ isLoading' = FALSE
  /\ newOrdersEffect(orders')
  /\ UNCHANGED <<serverOrders, updateStatusMutation, otherThanKitchen>>

\* The button of an order card that skips a step.
statusButton_skips(status) ==
  CASE status = "pending" -> "ready"
    [] status = "preparing" -> "delivered"
    [] status = "ready" -> "delivered"
    [] OTHER -> "none"

\* The status the button of an order card asks for ("none": no button).
statusButton(status) ==
  CASE status = "pending" -> "preparing"
    [] status = "preparing" -> "ready"
    [] status = "ready" -> "delivered"
    [] OTHER -> "none"

\* The cards rendered: the orders that are not delivered.
activeOrders == {order \in orders : order.status # "delivered"}

\* The buttons enabled while a status update is pending.
buttonsEnabled_always == TRUE

\* disabled={updateStatusMutation.isPending}
buttonsEnabled == updateStatusMutation = {}

\* The button of an order's card is pressed.
StatusButtonClick(order) ==
  /\ ~isLoading
  /\ order \in activeOrders
  /\ statusButton(order.status) # "none"
  /\ buttonsEnabled
  /\ updateStatusMutation' = {[id |-> order.id, status |-> statusButton(order.status)]}
  /\ notified' = FALSE
  /\ UNCHANGED <<serverOrders, orders, isLoading, previousOrderCountRef, otherThanKitchen>>

\* PATCH /api/orders/:id/status succeeds: the API stores the status.
StatusUpdated ==
  /\ \E update \in updateStatusMutation :
       serverOrders' = [serverOrders EXCEPT ![update.id] = update.status]
  /\ updateStatusMutation' = {}
  /\ notified' = FALSE
  /\ UNCHANGED <<orders, isLoading, previousOrderCountRef, otherThanKitchen>>

\* PATCH /api/orders/:id/status fails.
StatusUpdateFailed ==
  /\ updateStatusMutation # {}
  /\ updateStatusMutation' = {}
  /\ notified' = FALSE
  /\ UNCHANGED <<serverOrders, orders, isLoading, previousOrderCountRef, otherThanKitchen>>

KitchenNext ==
  \/ \E id \in OrderIds : OrderPlaced(id)
  \/ PollResult
  \/ \E order \in orders : StatusButtonClick(order)
  \/ StatusUpdated
  \/ StatusUpdateFailed

KitchenSpec == Init /\ [][KitchenNext]_vars

(* --------------------------- the customer menu ------------------------ *)

\* The menu the public API serves: two items, the first with two variants
\* and an add-on, the second with no variant and an add-on of its own.
\* Prices are decimal texts; an absent price is the empty text.
MenuItemIds == {1, 2}
MenuItem(id) ==
  IF id = 1
  THEN [id |-> 1, price |-> <<5>>, actualPrice |-> <<5>>, discountedPrice |-> <<4>>]
  ELSE [id |-> 2, price |-> <<3>>, actualPrice |-> <<>>, discountedPrice |-> <<>>]

VariantIds == {1, 2}
Variant(id) ==
  IF id = 1
  THEN [id |-> 1, menuItemId |-> 1, actualPrice |-> <<6>>, discountedPrice |-> <<>>]
  ELSE [id |-> 2, menuItemId |-> 1, actualPrice |-> <<1, 0>>, discountedPrice |-> <<8>>]

AddOnIds == {1, 2}
AddOn(id) ==
  IF id = 1
  THEN [id |-> 1, menuItemId |-> 1, addOnPrice |-> <<2>>]
  ELSE [id |-> 2, menuItemId |-> 2, addOnPrice |-> <<1>>]

\* GET /api/public/menu-items/:id/variants and .../add-ons
VariantsOf(item) == {v \in VariantIds : Variant(v).menuItemId = item}
AddOnsOf(item) == {a \in AddOnIds : AddOn(a).menuItemId = item}

RECURSIVE parseFloat(_)
\* parseFloat(text) of a price text (NaN, for the empty text, does not occur:
\* every item has a price, every variant an actualPrice).
parseFloat(s) == IF Len(s) = 0 THEN 0
                 ELSE 10 * parseFloat(SubSeq(s, 1, Len(s) - 1)) + s[Len(s)]

\* a || b on texts: the empty text is falsy.
orElse(a, b) == IF a = <<>> THEN b ELSE a

\* map.get(key) || 0, map.set(key, value), map.delete(key)
MapGet(map, key) == IF key \in DOMAIN map THEN map[key] ELSE 0
MapSet(map, key, value) ==
  [k \in DOMAIN map \cup {key} |-> IF k = key THEN value ELSE map[k]]
MapDelete(map, key) == [k \in DOMAIN map \ {key} |-> map[k]]

Max(a, b) == IF a >= b THEN a ELSE b

\* The list a query holds (empty while it has no data).
DataOf(query) == UNION query

\* handleSelectItem: a menu card is clicked.  The two queries change key
\* and hold no data until they are answered.
handleSelectItem(item) ==
  /\ selectedItem' = item
  /\ quantity' = 1
  /\ selectedVariant' = Undefined
  /\ selectedAddOns' = EmptyMap
  /\ allVariants' = IF item = selectedItem THEN allVariants ELSE {}
  /\ allAddOns' = IF item = selectedItem THEN allAddOns ELSE {}
  /\ UNCHANGED <<cart, otherThanMenu>>

\* The variants query of the selected item is answered.
VariantsLoaded ==
  /\ selectedItem # Undefined
  /\ allVariants = {}
  /\ allVariants' = {VariantsOf(selectedItem)}
  /\ UNCHANGED <<selectedItem, selectedVariant, selectedAddOns, quantity, cart,
                 allAddOns, otherThanMenu>>

\* The add-ons query of the selected item is answered.
AddOnsLoaded ==
  /\ selectedItem # Undefined
  /\ allAddOns = {}
  /\ allAddOns' = {AddOnsOf(selectedItem)}
  /\ UNCHANGED <<selectedItem, selectedVariant, selectedAddOns, quantity, cart,
                 allVariants, otherThanMenu>>

\* The item sheet is dismissed: onOpenChange(false) clears the item only.
SheetClosed ==
  /\ selectedItem # Undefined
  /\ selectedItem' = Undefined
  /\ allVariants' = {}
  /\ allAddOns' = {}
  /\ UNCHANGED <<selectedVariant, selectedAddOns, quantity, cart, otherThanMenu>>

\* A variant card of the sheet is clicked.
setSelectedVariant(variant) ==
  /\ selectedItem # Undefined
  /\ variant \in DataOf(allVariants)
  /\ selectedVariant' = variant
  /\ UNCHANGED <<selectedItem, selectedAddOns, quantity, cart, allVariants,
                 allAddOns, otherThanMenu>>

\* toggleAddOn: the "Add" button of an add-on that is not selected.
toggleAddOn(addOn) ==
  /\ selectedItem # Undefined
  /\ addOn \in DataOf(allAddOns)
  /\ MapGet(selectedAddOns, addOn) = 0
  /\ LET current == MapGet(selectedAddOns, addOn)
     IN  selectedAddOns' = IF current > 0 THEN MapDelete(selectedAddOns, addOn)
                           ELSE MapSet(selectedAddOns, addOn, 1)
  /\ UNCHANGED <<selectedItem, selectedVariant, quantity, cart, allVariants,
                 allAddOns, otherThanMenu>>

\* updateAddOnQuantity keeping an add-on whose quantity reaches 0.
updateAddOnQuantity_keepsZero(addOnId, delta) ==
  /\ selectedItem # Undefined
  /\ addOnId \in DataOf(allAddOns)
  /\ MapGet(selectedAddOns, addOnId) > 0
  /\ MapGet(selectedAddOns, addOnId) + delta <= MaxQuantity
  /\ LET current == MapGet(selectedAddOns, addOnId)
         newQty == Max(0, current + delta)
     IN  selectedAddOns' = MapSet(selectedAddOns, addOnId, newQty)
  /\ UNCHANGED <<selectedItem, selectedVariant, quantity, cart, allVariants,
                 allAddOns, otherThanMenu>>

\* updateAddOnQuantity: the - and + buttons of a selected add-on.
updateAddOnQuantity(addOnId, delta) ==
  /\ selectedItem # Undefined
  /\ addOnId \in DataOf(allAddOns)
  /\ MapGet(selectedAddOns, addOnId) > 0
  /\ MapGet(selectedAddOns, addOnId) + delta <= MaxQuantity
  /\ LET current == MapGet(selectedAddOns, addOnId)
         newQty == Max(0, current + delta)
     IN  selectedAddOns' = IF newQty = 0 THEN MapDelete(selectedAddOns, addOnId)
                           ELSE MapSet(selectedAddOns, addOnId, newQty)
  /\ UNCHANGED <<selectedItem, selectedVariant, quantity, cart, allVariants,
                 allAddOns, otherThanMenu>>

\* The - and + buttons of the quantity selector.
setQuantity(delta) ==
  /\ selectedItem # Undefined
  /\ quantity + delta <= MaxQuantity
  /\ quantity' = IF delta < 0 THEN Max(1, quantity + delta) ELSE quantity + delta
  /\ UNCHANGED <<selectedItem, selectedVariant, selectedAddOns, cart, allVariants,
                 allAddOns, otherThanMenu>>

RECURSIVE addOnsTotal(_, _)
\* The forEach of calculateItemPrice: an add-on the loaded list does not
\* hold adds nothing.
addOnsTotal(map, loaded) ==
  IF DOMAIN map = {} THEN 0
  ELSE LET addOnId == Min(DOMAIN map)
       IN  (IF addOnId \in loaded
            THEN parseFloat(AddOn(addOnId).addOnPrice) * map[addOnId] ELSE 0)
           + addOnsTotal(MapDelete(map, addOnId), loaded)

\* The price of a variant, or of the item when there is no variant.
basePrice(item, variant) ==
  IF variant # Undefined
  THEN parseFloat(orElse(Variant(variant).discountedPrice, Variant(variant).actualPrice))
  ELSE IF item # Undefined
  THEN parseFloat(orElse(orElse(MenuItem(item).discountedPrice,
                                MenuItem(item).actualPrice), MenuItem(item).price))
  ELSE 0

calculateItemPrice ==
  (basePrice(selectedItem, selectedVariant)
     + addOnsTotal(selectedAddOns, DataOf(allAddOns))) * quantity

\* disabled={allVariants && allVariants.length > 0 && !selectedVariant}
addToCartDisabled ==
  allVariants # {} /\ DataOf(allVariants) # {} /\ selectedVariant = Undefined

\* handleAddToCart: the "Add to Cart" button of the sheet.
handleAddToCart ==
  /\ selectedItem # Undefined
  /\ ~addToCartDisabled
  /\ Len(cart) < MaxCart
  /\ LET addOnsArray ==
           [a \in {k \in DOMAIN selectedAddOns : selectedAddOns[k] > 0}
              |-> selectedAddOns[a]]
         cartItem == [menuItem |-> selectedItem,
                      quantity |-> quantity,
                      selectedVariant |-> selectedVariant,
                      selectedAddOns |-> addOnsArray,
                      totalPrice |-> calculateItemPrice]
     IN  cart' = Append(cart, cartItem)
  /\ selectedItem' = Undefined
  /\ quantity' = 1
  /\ selectedVariant' = Undefined
  /\ selectedAddOns' = EmptyMap
  /\ allVariants' = {}
  /\ allAddOns' = {}
  /\ UNCHANGED otherThanMenu

\* The X button of a cart entry: cart.filter((_, i) => i !== index).
RemoveFromCart(index) ==
  /\ index \in 1 .. Len(cart)
  /\ cart' = SubSeq(cart, 1, index - 1) \o SubSeq(cart, index + 1, Len(cart))
  /\ UNCHANGED <<selectedItem, selectedVariant, selectedAddOns, quantity,
                 allVariants, allAddOns, otherThanMenu>>

RECURSIVE reduce(_)
\* cart.reduce((sum, item) => sum + item.totalPrice, 0)
reduce(items) == IF items = <<>> THEN 0
                 ELSE reduce(SubSeq(items, 1, Len(items) - 1)) + items[Len(items)].totalPrice

cartTotal == reduce(cart)

MenuNext ==
  \/ \E item \in MenuItemIds : handleSelectItem(item)
  \/ VariantsLoaded
  \/ AddOnsLoaded
  \/ SheetClosed
  \/ \E variant \in VariantIds : setSelectedVariant(variant)
  \/ \E addOn \in AddOnIds : toggleAddOn(addOn)
  \/ \E addOnId \in AddOnIds, delta \in {-1, 1} : updateAddOnQuantity(addOnId, delta)
  \/ \E delta \in {-1, 1} : setQuantity(delta)
  \/ handleAddToCart
  \/ \E index \in 1 .. MaxCart : RemoveFromCart(index)

MenuSpec == Init /\ [][MenuNext]_vars

(* --------------------------- the bookings page ------------------------ *)

\* What is typed into a field of the quick guest form (or uploaded as the
\* ID proof): nothing, or some text.
GuestFieldTexts == {<<>>, <<"a">>}
GuestFields == {"fullName", "phone", "email", "idProofImage"}

\* The status the booking form holds when it is submitted: its default, or
\* another one chosen in the form.
FormStatuses == {"pending", "checked-in"}

\* The values of the booking form handed to onSubmit.
BookingFormData == {[guestId |-> Undefined, status |-> status] : status \in FormStatuses}

\* "Add Booking": onOpenChange(true).
DialogOpened ==
  /\ ~isDialogOpen
  /\ isDialogOpen' = TRUE
  /\ bookingsToast' = ""
  /\ UNCHANGED <<quickGuestData, guestCalls, createMutation, guestPosts,
                 guestsCreated, bookingPosts, otherThanBookings>>

\* The dialog is dismissed: onOpenChange(false) resets the guest data.
DialogClosed ==
  /\ isDialogOpen
  /\ isDialogOpen' = FALSE
  /\ quickGuestData' = NoGuestData
  /\ bookingsToast' = ""
  /\ UNCHANGED <<guestCalls, createMutation, guestPosts, guestsCreated,
                 bookingPosts, otherThanBookings>>

\* A field of the quick guest form is edited.
setQuickGuestData(field, text) ==
  /\ isDialogOpen
  /\ quickGuestData' = [quickGuestData EXCEPT ![field] = text]
  /\ bookingsToast' = ""
  /\ UNCHANGED <<isDialogOpen, guestCalls, createMutation, guestPosts,
                 guestsCreated, bookingPosts, otherThanBookings>>

\* The body of POST /api/guests.
GuestBody(guest) ==
  [fullName |-> guest.fullName,
   phone |-> guest.phone,
   email |-> IF guest.email = <<>> THEN Null ELSE guest.email,
   idProof |-> guest.idProofImage,
   idProofType |-> "upload"]

\* onSubmit up to its await: POST /api/guests is issued.
PostGuest(data) ==
  LET call == Cardinality(guestPosts) + 1
  IN  /\ guestCalls' = guestCalls \cup {[call |-> call, data |-> data]}
      /\ guestPosts' = guestPosts \cup {[call |-> call, body |-> GuestBody(quickGuestData)]}
      /\ bookingsToast' = ""

\* onSubmit without the test of the ID proof.
bookingsOnSubmit_noIdProofCheck(data) ==
  /\ isDialogOpen
  /\ Cardinality(guestPosts) < MaxGuestCalls
  /\ IF quickGuestData.fullName = <<>> \/ quickGuestData.phone = <<>>
     THEN /\ bookingsToast' = "Guest name and phone number are required"
          /\ UNCHANGED <<guestCalls, guestPosts>>
     ELSE PostGuest(data)
  /\ UNCHANGED <<isDialogOpen, quickGuestData, createMutation, guestsCreated,
                 bookingPosts, otherThanBookings>>

\* onSubmit of the Bookings page, up to its await.
bookingsOnSubmit(data) ==
  /\ isDialogOpen
  /\ Cardinality(guestPosts) < MaxGuestCalls
  /\ IF quickGuestData.fullName = <<>> \/ quickGuestData.phone = <<>>
     THEN /\ bookingsToast' = "Guest name and phone number are required"
          /\ UNCHANGED <<guestCalls, guestPosts>>
     ELSE IF quickGuestData.idProofImage = <<>>
     THEN /\ bookingsToast' = "Please upload guest ID proof before creating booking"
          /\ UNCHANGED <<guestCalls, guestPosts>>
     ELSE PostGuest(data)
  /\ UNCHANGED <<isDialogOpen, quickGuestData, createMutation, guestsCreated,
                 bookingPosts, otherThanBookings>>

\* POST /api/guests resolves with the new guest: onSubmit resumes and calls
\* createMutation.mutate({...data, guestId: guestData.id, status: "confirmed"}).
GuestCreated(guestCall) ==
  /\ guestCall \in guestCalls
  /\ LET guestData == [id |-> Cardinality(guestsCreated) + 1]
         bookingData == [[guestCall.data EXCEPT !.guestId = guestData.id]
                           EXCEPT !.status = "confirmed"]
         post == [call |-> guestCall.call, data |-> bookingData]
     IN  /\ guestsCreated' = guestsCreated \cup {[call |-> guestCall.call, id |-> guestData.id]}
         /\ createMutation' = createMutation \cup {post}
         /\ bookingPosts' = bookingPosts \cup {post}
  /\ guestCalls' = guestCalls \ {guestCall}
  /\ bookingsToast' = ""
  /\ UNCHANGED <<isDialogOpen, quickGuestData, guestPosts, otherThanBookings>>

\* POST /api/guests rejects: the catch block raises the error toast.
GuestCreationFailed(guestCall) ==
  /\ guestCall \in guestCalls
  /\ guestCalls' = guestCalls \ {guestCall}
  /\ bookingsToast' = "Error"
  /\ UNCHANGED <<isDialogOpen, quickGuestData, createMutation, guestPosts,
                 guestsCreated, bookingPosts, otherThanBookings>>

\* createMutation onSuccess.
BookingCreated(post) ==
  /\ post \in createMutation
  /\ createMutation' = createMutation \ {post}
  /\ bookingsToast' = "Booking created successfully"
  /\ isDialogOpen' = FALSE
  /\ quickGuestData' = NoGuestData
  /\ UNCHANGED <<guestCalls, guestPosts, guestsCreated, bookingPosts, otherThanBookings>>

\* createMutation onError.
BookingRejected(post) ==
  /\ post \in createMutation
  /\ createMutation' = createMutation \ {post}
  /\ bookingsToast' = "Error"
  /\ UNCHANGED <<isDialogOpen, quickGuestData, guestCalls, guestPosts,
                 guestsCreated, bookingPosts, otherThanBookings>>

BookingsNext ==
  \/ DialogOpened
  \/ DialogClosed
  \/ \E field \in GuestFields, text \in GuestFieldTexts : setQuickGuestData(field, text)
  \/ \E data \in BookingFormData : bookingsOnSubmit(data)
  \/ \E guestCall \in guestCalls : GuestCreated(guestCall)
  \/ \E guestCall \in guestCalls : GuestCreationFailed(guestCall)
  \/ \E post \in createMutation : BookingCreated(post)
  \/ \E post \in createMutation : BookingRejected(post)

BookingsSpec == Init /\ [][BookingsNext]_vars

(* ----------------- the submit handler on any selection ---------------- *)

\* onSubmit is entered with the guest form open and any combination of
\* property, dates and room set or unset.
SubmitInit ==
  /\ selectedPropertyId \in Properties \cup {Undefined}
  /\ checkInDate \in Days \cup {Undefined}
  /\ checkOutDate \in Days \cup {Undefined}
  /\ selectedRoomId \in Rooms \cup {Undefined}
  /\ availableRooms = <<>>
  /\ loadingRooms = FALSE
  /\ showGuestForm = TRUE
  /\ form = TypicalGuest
  /\ pendingEnquiry = {}
  /\ inflight = {}
  /\ nIssued = 0
  /\ toast = ""
  /\ superseded = {}
  /\ lastEvent = Event("open", 0)
  /\ resultOf = "none"
  /\ calendarPropertyId = Undefined
  /\ bookings = {}
  /\ calendarRooms = {}
  /\ KitchenInit
  /\ MenuInit
  /\ BookingsInit

SubmitNext == Submit \/ EnquiryCreated \/ EnquiryRejected

SubmitSpec == SubmitInit /\ [][SubmitNext]_vars

(* ------------------- the guest form on a chosen room ------------------ *)

\* A room of the first property was chosen for [today, today + 1) and the
\* guest form is open with its default values.
FormInit ==
  /\ selectedPropertyId = 1
  /\ checkInDate = today
  /\ checkOutDate = today + 1
  /\ \E r \in RoomsOf(1) :
       availableRooms = <<r>> /\ selectedRoomId = r /\ lastEvent = Event("room", r)
  /\ loadingRooms = FALSE
  /\ showGuestForm = TRUE
  /\ form = defaultValues
  /\ pendingEnquiry = {}
  /\ inflight = {}
  /\ nIssued = 1
  /\ toast = ""
  /\ superseded = {}
  /\ resultOf = "shown"
  /\ calendarPropertyId = Undefined
  /\ bookings = {}
  /\ calendarRooms = {}
  /\ KitchenInit
  /\ MenuInit
  /\ BookingsInit

FormNext ==
  \/ \E field \in DOMAIN GuestInputs :
       \E text \in GuestInputs[field] : TypeGuestDetails(field, text)
  \/ Submit
  \/ EnquiryCreated
  \/ EnquiryRejected

FormSpec == FormInit /\ [][FormNext]_vars


(* ------------------------------- claims ------------------------------- *)

\* The step handles a click on day d.
ClickStep(d) == lastEvent' = Event("click", d)

\* C1: a click on a day earlier than today changes nothing, whatever the
\* selection state: checkIn, checkOut, the room list, the selected room and
\* the guest-form flag keep their values and no availability query is issued.
C1_PastClickChangesNothing ==
  [][\A d \in Days :
       (ClickStep(d) /\ d < today)
         => /\ checkInDate' = checkInDate
            /\ checkOutDate' = checkOutDate
            /\ availableRooms' = availableRooms
            /\ selectedRoomId' = selectedRoomId
            /\ showGuestForm' = showGuestForm
            /\ nIssued' = nIssued
            /\ inflight' = inflight]_vars

\* A past day was clicked with a room chosen and the guest form open.
C1_Witness ==
  /\ lastEvent.kind = "click"
  /\ lastEvent.arg < today
  /\ showGuestForm
  /\ selectedRoomId # Undefined

\* C2: with a property chosen and no check-in, a click on d1 >= today stores
\* checkIn = d1 and issues nothing; the click on d2 > d1 that follows it keeps
\* checkIn = d1, stores checkOut = d2 and issues exactly one availability
\* query, for (propertyId, d1, d2).
C2_TwoClicksCompleteRange ==
  [][\A d \in Days :
       (ClickStep(d) /\ d >= today /\ selectedPropertyId # Undefined)
         => /\ checkInDate = Undefined
                 => /\ checkInDate' = d
                    /\ checkOutDate' = Undefined
                    /\ nIssued' = nIssued
                    /\ inflight' = inflight
            /\ (checkInDate # Undefined /\ checkOutDate = Undefined /\ d > checkInDate)
                 => /\ checkInDate' = checkInDate
                    /\ checkOutDate' = d
                    /\ nIssued' = nIssued + 1
                    /\ inflight' = inflight \cup
                         {[id |-> nIssued + 1, propertyId |-> selectedPropertyId,
                           checkIn |-> checkInDate, checkOut |-> d]}]_vars

\* The first query of a run was just issued by the click that completed the range.
C2_Witness ==
  /\ lastEvent.kind = "click"
  /\ checkInDate # Undefined
  /\ lastEvent.arg = checkOutDate
  /\ nIssued = 1
  /\ \E q \in inflight : q.checkIn = checkInDate /\ q.checkOut = checkOutDate

\* C3: while awaiting check-out, a click on a day d2 <= checkIn that is not
\* past raises the invalid-date signal and changes nothing: checkIn is kept,
\* checkOut stays absent and no availability query is issued.
C3_InvalidCheckOutRejected ==
  [][\A d \in Days :
       (ClickStep(d) /\ d >= today /\ checkInDate # Undefined
          /\ checkOutDate = Undefined /\ d <= checkInDate)
         => /\ toast' = "Invalid Date"
            /\ checkInDate' = checkInDate
            /\ checkOutDate' = Undefined
            /\ nIssued' = nIssued
            /\ inflight' = inflight]_vars

\* The check-in day itself was clicked as the check-out and refused.
C3_Witness ==
  /\ toast = "Invalid Date"
  /\ lastEvent = Event("click", checkInDate)
  /\ checkOutDate = Undefined

\* C4: whenever checkIn and checkOut are both present, checkOut is strictly
\* later than checkIn.
C4_CheckOutAfterCheckIn ==
  (checkInDate # Undefined /\ checkOutDate # Undefined) => checkOutDate > checkInDate

\* A complete range held while an enquiry creation is in flight.
C4_Witness ==
  /\ checkInDate # Undefined
  /\ checkOutDate # Undefined
  /\ pendingEnquiry # {}

\* C5: from a complete range, a click on any day d >= today resets to
\* checkIn = d with checkOut absent, the room list empty, no room selected
\* and the guest form closed; and the cleared room list and room selection
\* stay cleared for as long as check-out is awaited.
C5_ThirdClickResetsUntilNewRange ==
  [][/\ \A d \in Days :
          (ClickStep(d) /\ d >= today /\ checkInDate # Undefined /\ checkOutDate # Undefined)
            => /\ checkInDate' = d
               /\ checkOutDate' = Undefined
               /\ availableRooms' = <<>>
               /\ selectedRoomId' = Undefined
               /\ ~showGuestForm'
     /\ (/\ checkInDate # Undefined /\ checkOutDate = Undefined
         /\ checkInDate' # Undefined /\ checkOutDate' = Undefined
         /\ availableRooms = <<>> /\ selectedRoomId = Undefined)
            => (availableRooms' = <<>> /\ selectedRoomId' = Undefined)]_vars

\* C6: a property change leaves the chosen property selected and nothing
\* else: checkIn and checkOut absent, the room list empty, no room selected,
\* the guest form closed, whatever the state before and whether or not an
\* availability query is outstanding.
C6_PropertyChangeResets ==
  [][\A p \in Properties :
       lastEvent' = Event("property", p)
         => /\ selectedPropertyId' = p
            /\ checkInDate' = Undefined
            /\ checkOutDate' = Undefined
            /\ availableRooms' = <<>>
            /\ selectedRoomId' = Undefined
            /\ ~showGuestForm']_vars

\* The property was changed with a query outstanding.
C6_Witness ==
  /\ lastEvent.kind = "property"
  /\ inflight # {}
  /\ checkInDate = Undefined
  /\ availableRooms = <<>>

\* The requests whose response the step delivers.
Delivered == inflight \ inflight'

\* C7: the response (rooms, empty or failure) to a query that a property
\* change or a range restart has superseded changes nothing of the selection
\* state.
C7_StaleResponseDiscarded ==
  [][\A q \in Delivered :
       q.id \in superseded
         => /\ availableRooms' = availableRooms
            /\ checkInDate' = checkInDate
            /\ checkOutDate' = checkOutDate
            /\ selectedRoomId' = selectedRoomId
            /\ showGuestForm' = showGuestForm]_vars

\* C8: loadingRooms is true exactly while some issued query has not resolved.
C8_LoadingIffOutstanding == loadingRooms <=> (inflight # {})

\* C9: a query is issued only when every query still outstanding has been
\* superseded by a property change or a range restart.
C9_NoSecondQueryUnlessSuperseded ==
  [][nIssued' > nIssued => \A q \in inflight : q.id \in superseded]_vars

\* A second query was issued while the first, superseded, was outstanding.
C9_Witness ==
  /\ lastEvent.kind = "click"
  /\ nIssued = 2
  /\ Cardinality(inflight) = 2
  /\ Cardinality(superseded) = 1

\* C10: a room is selected only in a complete range and only from the room
\* list; the selection records the room's id and opens the guest form, and
\* leaves checkIn, checkOut and the room list as they were.
C10_RoomSelectFromResults ==
  [][\A r \in Rooms :
       lastEvent' = Event("room", r)
         => /\ checkInDate # Undefined /\ checkOutDate # Undefined
            /\ \E i \in 1 .. Len(availableRooms) : availableRooms[i] = r
            /\ selectedRoomId' = r
            /\ showGuestForm'
            /\ checkInDate' = checkInDate
            /\ checkOutDate' = checkOutDate
            /\ availableRooms' = availableRooms]_vars

\* The second of two listed rooms was selected.
C10_Witness ==
  /\ lastEvent.kind = "room"
  /\ Len(availableRooms) = 2
  /\ selectedRoomId = availableRooms[2]
  /\ showGuestForm

SubmitStep == lastEvent' = Event("submit", 0)

\* The selection onSubmit requires: property, both dates and a room.
SelectionComplete ==
  /\ selectedPropertyId # Undefined
  /\ checkInDate # Undefined
  /\ checkOutDate # Undefined
  /\ selectedRoomId # Undefined

\* C11: a submission with the property, checkIn, checkOut or the room unset
\* is refused with the missing-information condition: no creation call is
\* issued and property, selection and form are unchanged.
C11_IncompleteSubmitRefused ==
  [][(SubmitStep /\ enquiryFormSchema(form) /\ ~SelectionComplete)
       => /\ toast' = "Missing Information"
          /\ pendingEnquiry' = {}
          /\ UNCHANGED <<selectedPropertyId, selection, form>>]_vars

\* A submission was refused with only the room unset.
C11_Witness ==
  /\ lastEvent = Event("submit", 0)
  /\ toast = "Missing Information"
  /\ selectedPropertyId # Undefined
  /\ checkInDate # Undefined
  /\ checkOutDate # Undefined
  /\ selectedRoomId = Undefined
  /\ pendingEnquiry = {}

\* C12: a submission of valid guest data with a complete selection issues
\* one creation call, none being outstanding, and the call carries the
\* selected property and room, checkInDate = checkIn, checkOutDate =
\* checkOut and status new; a call is issued by a submission only.
C12_ValidSubmitCreatesOnce ==
  /\ [](Cardinality(pendingEnquiry) <= 1)
  /\ [][/\ (SubmitStep /\ enquiryFormSchema(form) /\ SelectionComplete)
            => /\ pendingEnquiry = {}
               /\ Cardinality(pendingEnquiry') = 1
               /\ \A e \in pendingEnquiry' :
                    /\ e.propertyId = selectedPropertyId
                    /\ e.roomId = selectedRoomId
                    /\ e.checkInDate = checkInDate
                    /\ e.checkOutDate = checkOutDate
                    /\ e.guestName = form.guestName
                    /\ e.guestPhone = form.guestPhone
                    /\ e.status = "new"
        /\ (pendingEnquiry' # {} /\ pendingEnquiry' # pendingEnquiry) => SubmitStep]_vars

\* A creation call for a range of more than one night is outstanding.
C12_Witness ==
  /\ lastEvent = Event("submit", 0)
  /\ \E e \in pendingEnquiry :
       /\ e.roomId = selectedRoomId
       /\ e.checkInDate = checkInDate
       /\ e.checkOutDate = checkOutDate
       /\ e.checkOutDate > e.checkInDate + 1

\* The selection and the form as onSuccess leaves them.
SelectionReset ==
  /\ checkInDate = Undefined
  /\ checkOutDate = Undefined
  /\ availableRooms = <<>>
  /\ selectedRoomId = Undefined
  /\ ~showGuestForm
  /\ form = defaultValues

\* C13: the success of the creation call resets the selection (checkIn and
\* checkOut absent, room list empty, no room selected, guest form closed,
\* form fields reset), and the selection stays so until the next date click.
C13_SuccessResetsUntilNextClick ==
  [][/\ lastEvent' = Event("created", 0) => SelectionReset'
     /\ (lastEvent = Event("created", 0) /\ SelectionReset /\ lastEvent'.kind # "click")
          => SelectionReset']_vars

\* C14: an empty availability result is reported as the no-rooms condition
\* and not as the error; checkIn and checkOut are unchanged, a complete
\* range stays complete, the room list is empty and no room button is
\* offered.
C14_EmptyResultIsNoRooms ==
  [][lastEvent' = Event("rooms", 0)
       => /\ toast' = "No Rooms Available"
          /\ toast' # "Error"
          /\ UNCHANGED <<checkInDate, checkOutDate>>
          /\ (RangeComplete => RangeComplete')
          /\ availableRooms' = <<>>
          /\ roomButtons' = {}
          /\ \A r \in Rooms : ~(ENABLED RoomClick(r))']_vars

\* An empty result arrived for the completed range.
C14_Witness ==
  /\ lastEvent = Event("rooms", 0)
  /\ RangeComplete
  /\ toast = "No Rooms Available"
  /\ inflight = {}

\* C15: a failed availability query reports the error, clears the room
\* list and the loading mark and keeps checkIn and checkOut, so that a
\* complete range stays complete with no rooms; from a complete range every
\* day from today on can be clicked, and a check-out click issues a query.
C15_FailureIsRecoverable ==
  /\ [][lastEvent' = Event("failed", 0)
          => /\ toast' = "Error"
             /\ availableRooms' = <<>>
             /\ ~loadingRooms'
             /\ UNCHANGED <<checkInDate, checkOutDate>>
             /\ (RangeComplete => RangeComplete')]_vars
  /\ [](RangeComplete => \A d \in Days : d >= today => ENABLED DateClick(d))
  /\ []((AwaitingCheckOut /\ nIssued < MaxQueries)
          => \A d \in Days : d > checkInDate => ENABLED DateClick(d))
  /\ [][\A d \in Days :
          (ClickStep(d) /\ AwaitingCheckOut /\ d > checkInDate)
            => nIssued' = nIssued + 1]_vars

\* The only query of a completed range failed.
C15_Witness ==
  /\ lastEvent = Event("failed", 0)
  /\ RangeComplete
  /\ toast = "Error"
  /\ availableRooms = <<>>
  /\ inflight = {}
  /\ nIssued < MaxQueries

\* C17: every creation call carries guest fields that pass validation: a
\* name of at least 2 characters, a phone of at least 10 digits, an email
\* well-formed or empty, an integer number of guests >= 1, and amounts >= 0
\* when present.
C17_CallOnlyWithValidGuest ==
  \A e \in pendingEnquiry :
    /\ Len(e.guestName) >= 2
    /\ Cardinality({i \in 1 .. Len(e.guestPhone) : IsDigit(e.guestPhone[i])}) >= 10
    /\ (isEmail(e.guestEmail) \/ e.guestEmail = Null)
    /\ \E n \in e.numberOfGuests : n % 10 = 0 /\ n >= 10
    /\ \A n \in e.priceQuoted : n >= 0
    /\ \A n \in e.advanceAmount : n >= 0

\* checkIn or checkOut changes in this step.
DatesChange == checkInDate' # checkInDate \/ checkOutDate' # checkOutDate

\* C18 as stated: checkIn and checkOut change on date clicks and on
\* property changes only.
C18_DatesChangeOnClickOrPropertyOnly ==
  [][DatesChange => lastEvent'.kind \in {"click", "property"}]_vars

\* C18, amended: checkIn and checkOut are set by date clicks only, and are
\* cleared by a property change, by a click after a complete range and by
\* the success of the creation call only; a room selection, the resolution
\* of an availability query, a submission and a failed creation call leave
\* them unchanged.
C18_DatesChangeOnClickPropertyOrSuccess ==
  [][/\ DatesChange => lastEvent'.kind \in {"click", "property", "created"}
     /\ (DatesChange /\ lastEvent'.kind \in {"property", "created"})
          => (checkInDate' = Undefined /\ checkOutDate' = Undefined)
     /\ (DatesChange /\ checkOutDate # Undefined /\ checkOutDate' = Undefined
           /\ lastEvent'.kind = "click")
          => RangeComplete
     /\ lastEvent'.kind \in {"room", "rooms", "failed", "submit", "rejected", "type"}
          => UNCHANGED <<checkInDate, checkOutDate>>]_vars

\* The success of a creation call cleared the range.
C18_Witness ==
  /\ lastEvent = Event("created", 0)
  /\ checkInDate = Undefined
  /\ checkOutDate = Undefined
  /\ selectedPropertyId # Undefined

\* C19: a failed creation call is reported and changes neither the
\* property, the selection nor the form; the submit button is enabled
\* again, and when the failure follows the submission directly a new
\* submission would send the very enquiry that failed.
C19_FailedCreationKeepsSelection ==
  [][lastEvent' = Event("rejected", 0)
       => /\ toast' = "Error"
          /\ UNCHANGED <<selectedPropertyId, selection, form>>
          /\ pendingEnquiry' = {}
          /\ lastEvent = Event("submit", 0)
               => /\ showGuestForm'
                  /\ enquiryFormSchema(form')
                  /\ SelectionComplete'
                  /\ pendingEnquiry = {enquiryData(form)'}]_vars

\* A creation call failed right after its submission.
C19_Witness ==
  /\ lastEvent = Event("rejected", 0)
  /\ toast = "Error"
  /\ showGuestForm
  /\ SelectionComplete
  /\ availableRooms # <<>>
  /\ pendingEnquiry = {}

C20_OccupiedByCalendarDay ==
  \A room \in propertyRooms : \A d \in Days :
    isRoomOccupied(room, startOfDay(d))
      <=> \E booking \in propertyBookings :
            /\ booking.roomId = room
            /\ booking.checkInDate.day <= d
            /\ d < booking.checkOutDate.day

\* C21: a day is in range exactly when checkIn and checkOut are both
\* present and checkIn <= day <= checkOut, both ends included; with
\* checkOut absent no day is in range.
C21_InRangeInclusive ==
  /\ \A day \in Days :
       isDateInRange(day)
         <=> (/\ checkInDate # Undefined /\ checkOutDate # Undefined
              /\ checkInDate <= day /\ day <= checkOutDate)
  /\ checkOutDate = Undefined => \A day \in Days : ~isDateInRange(day)

\* A range of more than one night: both ends and a day between are in
\* range, the day before is not.
C21_Witness ==
  /\ RangeComplete
  /\ checkOutDate > checkInDate + 1
  /\ checkInDate - 1 \in Days
  /\ isDateInRange(checkInDate)
  /\ isDateInRange(checkOutDate)
  /\ isDateInRange(checkInDate + 1)
  /\ ~isDateInRange(checkInDate - 1)

\* C22: a creation call is issued with a room that is a member of the
\* room list shown, and that list is the response to the query for exactly
\* the property, checkIn and checkOut the call carries.
C22_RoomFromResultOfSameQuery ==
  [][(pendingEnquiry' # {} /\ pendingEnquiry' # pendingEnquiry)
       => \A e \in pendingEnquiry' :
            /\ e.roomId \in RoomIds(availableRooms)
            /\ e.propertyId = selectedPropertyId
            /\ e.checkInDate = checkInDate
            /\ e.checkOutDate = checkOutDate
            /\ resultOf = "shown"]_vars

\* C23: guest form open implies a room is selected, a selected room
\* implies checkOut present, checkOut present implies checkIn present and a
\* property chosen, and a non-empty room list implies checkOut present.
C23_FlagsConsistent ==
  /\ showGuestForm => selectedRoomId # Undefined
  /\ selectedRoomId # Undefined => checkOutDate # Undefined
  /\ checkOutDate # Undefined => (checkInDate # Undefined /\ selectedPropertyId # Undefined)
  /\ availableRooms # <<>> => checkOutDate # Undefined

\* C24: a query is issued by a date click only, while a property is
\* chosen, and carries that property, the stored check-in and the clicked
\* day as a check-out strictly later than the check-in.
C24_QueryCarriesSelection ==
  /\ [](\A q \in inflight : q.propertyId # Undefined /\ q.checkIn < q.checkOut)
  /\ [][\A q \in inflight' \ inflight :
          /\ selectedPropertyId # Undefined
          /\ q.propertyId = selectedPropertyId
          /\ checkInDate # Undefined
          /\ q.checkIn = checkInDate
          /\ q.checkOut > q.checkIn
          /\ lastEvent' = Event("click", q.checkOut)]_vars

\* The completing click has just issued the second query of the run, for
\* another range than the first, which is still outstanding.
C24_Witness ==
  /\ lastEvent.kind = "click"
  /\ \E q \in inflight : \E old \in inflight :
       /\ q.id = nIssued
       /\ q.checkOut = lastEvent.arg
       /\ q.propertyId = selectedPropertyId
       /\ old.id < q.id
       /\ <<old.checkIn, old.checkOut>> # <<q.checkIn, q.checkOut>>

\* The booking counts for the selected property: it is confirmed or
\* checked in and belongs to that property.
Counts(booking) ==
  /\ booking.status \in {"confirmed", "checked-in"}
  /\ booking.propertyId = calendarPropertyId

\* C25: for every day the available-room count lies between 0 and the
\* number of rooms of the selected property and the occupancy rate within
\* 0..100, the rate being 0 when there are no rooms; a count below the
\* number of rooms is due to a confirmed or checked-in booking of the
\* property, and a booking of another status or property that comes or
\* goes changes no day's count.
C25_CountAndRateBounded ==
  /\ [](\A d \in Days :
          /\ getAvailableRoomsCount(startOfDay(d)) \in 0 .. totalRooms
          /\ occupancyRate(startOfDay(d)) \in 0 .. 100
          /\ totalRooms = 0 => occupancyRate(startOfDay(d)) = 0
          /\ getAvailableRoomsCount(startOfDay(d)) < totalRooms
               => \E booking \in bookings : Counts(booking))
  /\ [][(/\ bookings' # bookings
         /\ \A booking \in (bookings \ bookings') \cup (bookings' \ bookings) :
              ~Counts(booking))
          => \A d \in Days :
               getAvailableRoomsCount(startOfDay(d))' = getAvailableRoomsCount(startOfDay(d))]_vars

\* A checked-in booking of the selected property takes one room of several
\* on day 1, so the count is one below the number of rooms.
C25_Witness ==
  /\ totalRooms > 1
  /\ \E booking \in bookings : booking.status = "checked-in" /\ Counts(booking)
  /\ getAvailableRoomsCount(startOfDay(1)) = totalRooms - 1
  /\ occupancyRate(startOfDay(1)) \in 1 .. 99

\* C26: after the initial load, a poll result holding a pending order that
\* was not pending in the previous result plays the notification, and the
\* initial load never does.
C26_NewPendingOrderNotifies ==
  [][/\ (/\ ~isLoading
         /\ \E o \in orders' :
              /\ o.status = "pending"
              /\ [id |-> o.id, status |-> "pending"] \notin orders)
          => notified'
     /\ (isLoading /\ ~isLoading') => ~notified']_vars

\* How the status of an order advances.
StepsOfStatus == {<<"pending", "preparing">>, <<"preparing", "ready">>, <<"ready", "delivered">>}

\* C27: a status update is requested for a displayed order that is not
\* delivered, asks for the step after the displayed status, and is
\* requested only while none is pending; while one is pending no button
\* can be pressed.
C27_OnlyNextStatusRequested ==
  /\ [](Cardinality(updateStatusMutation) <= 1)
  /\ [](updateStatusMutation # {}
          => \A order \in orders : ~ENABLED StatusButtonClick(order))
  /\ [][\A update \in updateStatusMutation' \ updateStatusMutation :
          /\ updateStatusMutation = {}
          /\ \E order \in orders :
               /\ order.id = update.id
               /\ order.status # "delivered"
               /\ <<order.status, update.status>> \in StepsOfStatus]_vars

\* "delivered" is asked for an order displayed ready, while the other
\* order is displayed delivered.
C27_Witness ==
  /\ \E update \in updateStatusMutation :
       /\ update.status = "delivered"
       /\ [id |-> update.id, status |-> "ready"] \in orders
  /\ \E order \in orders : order.status = "delivered"

\* The total the menu owes for a cart entry, from what the entry records.
EntryTotal(entry) ==
  (basePrice(entry.menuItem, entry.selectedVariant)
     + addOnsTotal(entry.selectedAddOns, AddOnIds)) * entry.quantity

RECURSIVE SumOfEntryTotals(_)
SumOfEntryTotals(items) ==
  IF items = <<>> THEN 0
  ELSE EntryTotal(items[1]) + SumOfEntryTotals(SubSeq(items, 2, Len(items)))

\* A step that selects an item, and a step that adds an entry to the cart.
ItemSelected == selectedItem' # Undefined /\ selectedItem' # selectedItem
AddedToCart == Len(cart') = Len(cart) + 1

\* C28: after every step of the customer menu the item quantity is at
\* least 1 and every add-on of the selection has a quantity of at least 1;
\* selecting an item or adding to the cart leaves quantity 1, no variant and
\* no add-ons; an added entry records the selection as it was; and the cart
\* total is the sum, over the entries in the cart, of (base price + sum of
\* add-on price times add-on quantity) times the entry's quantity.
C28_SelectionAndCartTotal ==
  [][/\ quantity' >= 1
     /\ \A addOnId \in DOMAIN selectedAddOns' : selectedAddOns'[addOnId] >= 1
     /\ (ItemSelected \/ AddedToCart) =>
          /\ quantity' = 1
          /\ selectedVariant' = Undefined
          /\ selectedAddOns' = EmptyMap
     /\ AddedToCart =>
          LET entry == cart'[Len(cart')]
          IN  /\ entry.menuItem = selectedItem
              /\ entry.quantity = quantity
              /\ entry.selectedVariant = selectedVariant
              /\ entry.selectedAddOns = selectedAddOns
     /\ cartTotal' = SumOfEntryTotals(cart')]_vars

\* Two entries are in the cart, one of them with a quantity above 1 and an
\* add-on taken more than once, and the selection is back to its defaults.
C28_Witness ==
  /\ Len(cart) = 2
  /\ \E i \in 1 .. Len(cart) :
       /\ cart[i].quantity > 1
       /\ \E addOnId \in DOMAIN cart[i].selectedAddOns :
            cart[i].selectedAddOns[addOnId] > 1
  /\ cartTotal > 0
  /\ selectedItem = Undefined
  /\ quantity = 1
  /\ selectedAddOns = EmptyMap

\* C29: an entry of the cart whose item has variants records a variant, and
\* a variant recorded in an entry is one of the variants of the entry's item.
C29_VariantOfItemRecorded ==
  \A i \in 1 .. Len(cart) :
    /\ VariantsOf(cart[i].menuItem) # {} => cart[i].selectedVariant # Undefined
    /\ cart[i].selectedVariant # Undefined =>
         cart[i].selectedVariant \in VariantsOf(cart[i].menuItem)

\* The guest-creation calls that were rejected.
FailedGuestCalls ==
  {p.call : p \in guestPosts} \ ({c.call : c \in guestCalls} \cup {g.call : g \in guestsCreated})

\* C30: every booking-creation request issued follows a guest-creation
\* request that succeeded, and carries the id of that guest and the status
\* confirmed; every guest-creation request issued carries a name, a phone
\* and an ID proof, so that none is issued while one of them is missing; and
\* no booking-creation request exists for a guest-creation that failed.
C30_BookingFollowsGuest ==
  /\ \A post \in bookingPosts :
       /\ post.data.status = "confirmed"
       /\ \E guest \in guestsCreated :
            guest.call = post.call /\ guest.id = post.data.guestId
       /\ \E p \in guestPosts : p.call = post.call
  /\ \A p \in guestPosts :
       p.body.fullName # <<>> /\ p.body.phone # <<>> /\ p.body.idProof # <<>>
  /\ \A post \in bookingPosts : post.call \notin FailedGuestCalls
  /\ bookingsToast \in {"Guest name and phone number are required",
                        "Please upload guest ID proof before creating booking"} =>
       quickGuestData.fullName = <<>> \/ quickGuestData.phone = <<>>
         \/ quickGuestData.idProofImage = <<>>

\* The first guest-creation failed and the second succeeded: its booking
\* request carries the id of the guest, which is not the number of the call.
C30_Witness ==
  /\ FailedGuestCalls # {}
  /\ \E post \in bookingPosts : post.data.guestId # post.call

=============================================================================
